---- MODULE Spec2Model ----
(***************************************************************************)
(* State-vector quantum circuit simulator: complex arithmetic, matrices,   *)
(* the gate catalog, the quantum register and the circuit engine.          *)
(*                                                                         *)
(* Numbers.  The program computes with IEEE doubles; the model computes    *)
(* exactly.  A complex value is a tuple <<a,b,c,d>> standing for           *)
(* a + b*w + c*w^2 + d*w^3 with w = e^(i*pi/4), so real = a + (b-d)/sqrt2  *)
(* and imag = c + (b+d)/sqrt2.  A vector or matrix carries one positive    *)
(* real scale: its entries are the tuples divided by the square root of    *)
(* the scale, the scale being p + q*sqrt2 written <<p,q>> (vectors) or an  *)
(* integer (matrices).  Angles are measured in quarter turns (pi/2), which *)
(* keeps every sine and cosine the catalog needs inside this ring.         *)
(***************************************************************************)
EXTENDS Integers, Sequences, FiniteSets, TLC

VARIABLES numQubits, gates, measurements, state, executionHistory,
          callerTargets, callerParams, lastOp, lastResult, runs, calls

vars == <<numQubits, gates, measurements, state, executionHistory,
          callerTargets, callerParams, lastOp, lastResult, runs, calls>>

-----------------------------------------------------------------------------
(* Bounds *)

MaxQubits == 2
MaxGates == 2
MaxShots == 2
MaxCalls == 3
MaxAngle == 1
MaxPosition == 2
MaxMeasurements == 1
MaxListed == 4
MaxRegister == 3
MaxRequested == 9
MaxPart == 1

-----------------------------------------------------------------------------
(* Complex *)

Zero == <<0, 0, 0, 0>>
One == <<1, 0, 0, 0>>

Complex(real, imag) == <<real, 0, imag, 0>>

\* w^k, k taken modulo 8
Omega(k) ==
    LET r == k % 8
    IN  CASE r = 0 -> <<1, 0, 0, 0>>
          [] r = 1 -> <<0, 1, 0, 0>>
          [] r = 2 -> <<0, 0, 1, 0>>
          [] r = 3 -> <<0, 0, 0, 1>>
          [] r = 4 -> <<-1, 0, 0, 0>>
          [] r = 5 -> <<0, -1, 0, 0>>
          [] r = 6 -> <<0, 0, -1, 0>>
          [] OTHER -> <<0, 0, 0, -1>>

\* Complex.fromPolar(1, angle), the angle given in eighths of a turn
fromPolar(eighths) == Omega(eighths)

add(x, y) == <<x[1] + y[1], x[2] + y[2], x[3] + y[3], x[4] + y[4]>>

subtract(x, y) == <<x[1] - y[1], x[2] - y[2], x[3] - y[3], x[4] - y[4]>>

multiply(x, y) ==
    <<x[1]*y[1] - x[2]*y[4] - x[3]*y[3] - x[4]*y[2],
      x[1]*y[2] + x[2]*y[1] - x[3]*y[4] - x[4]*y[3],
      x[1]*y[3] + x[2]*y[2] + x[3]*y[1] - x[4]*y[4],
      x[1]*y[4] + x[2]*y[3] + x[3]*y[2] + x[4]*y[1]>>

conjugate(x) == <<x[1], -x[4], -x[3], -x[2]>>

\* magnitude()^2 as p + q*sqrt2
magnitude2(x) ==
    <<x[1]*x[1] + x[2]*x[2] + x[3]*x[3] + x[4]*x[4],
      x[1]*x[2] + x[2]*x[3] + x[3]*x[4] - x[4]*x[1]>>

\* Reals of the form p + q*sqrt2
RAdd(r, s) == <<r[1] + s[1], r[2] + s[2]>>
RScale(k, r) == <<k * r[1], k * r[2]>>
RPositive(r) ==
    \/ r[1] > 0 /\ r[2] >= 0
    \/ r[1] >= 0 /\ r[2] > 0
    \/ r[1] > 0 /\ r[2] < 0 /\ r[1]*r[1] > 2*r[2]*r[2]
    \/ r[1] < 0 /\ r[2] > 0 /\ 2*r[2]*r[2] > r[1]*r[1]
RLess(r, s) == RPositive(<<s[1] - r[1], s[2] - r[2]>>)

\* The double n / d for integers n and d: a fraction in lowest terms, or what
\* IEEE division by zero gives
RECURSIVE GCD(_, _)
GCD(a, b) == IF b = 0 THEN a ELSE GCD(b, a % b)

Quotient(n, d) ==
    IF d = 0
    THEN [kind |-> IF n = 0 THEN "NaN" ELSE IF n > 0 THEN "Infinity"
                   ELSE "-Infinity",
          num |-> 0, den |-> 0]
    ELSE LET g == GCD(IF n < 0 THEN -n ELSE n, d)
         IN  [kind |-> "finite", num |-> n \div g, den |-> d \div g]

\* divide(other) on values with integer real and imaginary parts; no test of
\* the denominator is made
divide(x, y) ==
    LET denominator == y[1] * y[1] + y[3] * y[3]
    IN  [ok |-> TRUE, error |-> "none",
         value |-> [real |-> Quotient(x[1] * y[1] + x[3] * y[3], denominator),
                    imag |-> Quotient(x[3] * y[1] - x[1] * y[3], denominator)]]

-----------------------------------------------------------------------------
(* Matrix *)

\* new Matrix(rows, cols, data); den is the scale of the entries
Matrix(rows, cols, data, den) ==
    [rows |-> rows, cols |-> cols, data |-> data, den |-> den]

identity(size) ==
    Matrix(size, size,
           [i \in 1..size |-> [j \in 1..size |-> IF i = j THEN One ELSE Zero]],
           1)

\* Matrix.fromArray: rows from the array, cols from its first row
fromArray(arr, den) == Matrix(Len(arr), Len(arr[1]), arr, den)

-----------------------------------------------------------------------------
(* QuantumGates: matrix constructors *)

\* cos and sin of theta/2 for theta = a quarter turns, with their scale:
\* the values are c/sqrt(den) and s/sqrt(den)
HalfAngle(a) ==
    LET r == a % 8
    IN  CASE r = 0 -> [c |-> 1, s |-> 0, den |-> 1]
          [] r = 1 -> [c |-> 1, s |-> 1, den |-> 2]
          [] r = 2 -> [c |-> 0, s |-> 1, den |-> 1]
          [] r = 3 -> [c |-> -1, s |-> 1, den |-> 2]
          [] r = 4 -> [c |-> -1, s |-> 0, den |-> 1]
          [] r = 5 -> [c |-> -1, s |-> -1, den |-> 2]
          [] r = 6 -> [c |-> 0, s |-> -1, den |-> 1]
          [] OTHER -> [c |-> 1, s |-> -1, den |-> 2]

Hadamard ==
    fromArray(<< <<Complex(1, 0), Complex(1, 0)>>,
                 <<Complex(1, 0), Complex(-1, 0)>> >>, 2)

PauliX ==
    fromArray(<< <<Complex(0, 0), Complex(1, 0)>>,
                 <<Complex(1, 0), Complex(0, 0)>> >>, 1)

PauliY ==
    fromArray(<< <<Complex(0, 0), Complex(0, -1)>>,
                 <<Complex(0, 1), Complex(0, 0)>> >>, 1)

PauliZ ==
    fromArray(<< <<Complex(1, 0), Complex(0, 0)>>,
                 <<Complex(0, 0), Complex(-1, 0)>> >>, 1)

Phase ==
    fromArray(<< <<Complex(1, 0), Complex(0, 0)>>,
                 <<Complex(0, 0), Complex(0, 1)>> >>, 1)

\* diag(1, (1+i)/sqrt2) = diag(1, w)
T ==
    fromArray(<< <<Complex(1, 0), Complex(0, 0)>>,
                 <<Complex(0, 0), Omega(1)>> >>, 1)

RotationX(theta) ==
    LET h == HalfAngle(theta)
    IN  fromArray(<< <<Complex(h.c, 0), Complex(0, -h.s)>>,
                     <<Complex(0, -h.s), Complex(h.c, 0)>> >>, h.den)

RotationY(theta) ==
    LET h == HalfAngle(theta)
    IN  fromArray(<< <<Complex(h.c, 0), Complex(-h.s, 0)>>,
                     <<Complex(h.s, 0), Complex(h.c, 0)>> >>, h.den)

RotationZ(theta) ==
    fromArray(<< <<fromPolar(-theta), Complex(0, 0)>>,
                 <<Complex(0, 0), fromPolar(theta)>> >>, 1)

CNOT ==
    fromArray(<< <<One, Zero, Zero, Zero>>,
                 <<Zero, One, Zero, Zero>>,
                 <<Zero, Zero, Zero, One>>,
                 <<Zero, Zero, One, Zero>> >>, 1)

CZ ==
    fromArray(<< <<One, Zero, Zero, Zero>>,
                 <<Zero, One, Zero, Zero>>,
                 <<Zero, Zero, One, Zero>>,
                 <<Zero, Zero, Zero, Complex(-1, 0)>> >>, 1)

CRZ(angle) ==
    fromArray(<< <<One, Zero, Zero, Zero>>,
                 <<Zero, One, Zero, Zero>>,
                 <<Zero, Zero, fromPolar(-angle), Zero>>,
                 <<Zero, Zero, Zero, fromPolar(angle)>> >>, 1)

SWAP ==
    fromArray(<< <<One, Zero, Zero, Zero>>,
                 <<Zero, Zero, One, Zero>>,
                 <<Zero, One, Zero, Zero>>,
                 <<Zero, Zero, Zero, One>> >>, 1)

\* identity(8) with rows 6 and 7 (0-based) exchanged
Toffoli ==
    LET m == identity(8)
    IN  [m EXCEPT !.data[7][7] = Zero, !.data[7][8] = One,
                  !.data[8][7] = One, !.data[8][8] = Zero]

\* identity(8) with rows 5 and 6 (0-based) exchanged
Fredkin ==
    LET m == identity(8)
    IN  [m EXCEPT !.data[6][6] = Zero, !.data[6][7] = One,
                  !.data[7][6] = One, !.data[7][7] = Zero]

\* The literal handed to fromArray has four rows of two entries
U(theta, phi, lambda) ==
    LET h == HalfAngle(theta)
        expPhi == fromPolar(2 * phi)
        expLambda == fromPolar(2 * lambda)
        expPhiPlusLambda == fromPolar(2 * (phi + lambda))
        scale(k, z) == <<k * z[1], k * z[2], k * z[3], k * z[4]>>
    IN  fromArray(<< <<Complex(h.c, 0), Complex(0, 0)>>,
                     <<Complex(0, 0), scale(h.c, expLambda)>>,
                     <<Complex(0, 0), scale(h.s, expPhi)>>,
                     <<Complex(-h.s, 0), scale(h.c, expPhiPlusLambda)>> >>,
                  h.den)

\* angle = 2*pi / 2^k, exact for k in 0..3
Rk(k) ==
    LET eighths == CASE k = 0 -> 8 [] k = 1 -> 4 [] k = 2 -> 2 [] OTHER -> 1
    IN  fromArray(<< <<Complex(1, 0), Complex(0, 0)>>,
                     <<Complex(0, 0), fromPolar(eighths)>> >>, 1)

-----------------------------------------------------------------------------
(* QuantumGates: lookup by name and metadata *)

\* String.prototype.toUpperCase on the names the model passes
toUpperCase(s) ==
    CASE s = "h" -> "H"
      [] s = "cnot" -> "CNOT"
      [] s = "Rx" -> "RX"
      [] s = "Rk" -> "RK"
      [] s = "crz" -> "CRZ"
      [] s = "hadamard" -> "HADAMARD"
      [] s = "foo" -> "FOO"
      [] OTHER -> s

Ok(value) == [ok |-> TRUE, error |-> "none", value |-> value]
Fail(error) == [ok |-> FALSE, error |-> error, value |-> <<>>]

\* getGate(gateName, ...params): params is the argument list
getGate(gateName, params) ==
    LET n == toUpperCase(gateName)
    IN  CASE n \in {"H", "HADAMARD"} -> Ok(Hadamard)
          [] n \in {"X", "PAULI_X"} -> Ok(PauliX)
          [] n \in {"Y", "PAULI_Y"} -> Ok(PauliY)
          [] n \in {"Z", "PAULI_Z"} -> Ok(PauliZ)
          [] n \in {"S", "PHASE"} -> Ok(Phase)
          [] n \in {"T", "T_GATE"} -> Ok(T)
          [] n \in {"RX", "ROTATION_X"} ->
                IF Len(params) = 0 THEN Fail("MissingParameter")
                ELSE Ok(RotationX(params[1]))
          [] n \in {"RY", "ROTATION_Y"} ->
                IF Len(params) = 0 THEN Fail("MissingParameter")
                ELSE Ok(RotationY(params[1]))
          [] n \in {"RZ", "ROTATION_Z"} ->
                IF Len(params) = 0 THEN Fail("MissingParameter")
                ELSE Ok(RotationZ(params[1]))
          [] n \in {"CNOT", "CONTROLLED_NOT"} -> Ok(CNOT)
          [] n \in {"CZ", "CONTROLLED_Z"} -> Ok(CZ)
          [] n \in {"CRZ", "CONTROLLED_RZ"} ->
                IF Len(params) = 0 THEN Fail("MissingParameter")
                ELSE Ok(CRZ(params[1]))
          [] n = "SWAP" -> Ok(SWAP)
          [] n \in {"TOFFOLI", "CCNOT"} -> Ok(Toffoli)
          [] n \in {"FREDKIN", "CSWAP"} -> Ok(Fredkin)
          [] n = "U" ->
                IF Len(params) < 3 THEN Fail("MissingParameter")
                ELSE Ok(U(params[1], params[2], params[3]))
          [] n = "RK" ->
                IF Len(params) = 0 THEN Fail("MissingParameter")
                ELSE Ok(Rk(params[1]))
          [] OTHER -> Fail("UnknownGate")

\* The metadata table of getGateInfo: name |-> qubits, params
info ==
    [n \in {"H", "X", "Y", "Z", "S", "T", "RX", "RY", "RZ",
            "CNOT", "CZ", "SWAP", "TOFFOLI", "FREDKIN"} |->
        CASE n \in {"H", "X", "Y", "Z", "S", "T"} -> [qubits |-> 1, params |-> 0]
          [] n \in {"RX", "RY", "RZ"} -> [qubits |-> 1, params |-> 1]
          [] n \in {"CNOT", "CZ", "SWAP"} -> [qubits |-> 2, params |-> 0]
          [] OTHER -> [qubits |-> 3, params |-> 0]]

\* getGateInfo(gateName): the entry, or null
getGateInfo(gateName) ==
    IF toUpperCase(gateName) \in DOMAIN info
    THEN Ok(info[toUpperCase(gateName)])
    ELSE Fail("null")

-----------------------------------------------------------------------------
(* QuantumState *)

RECURSIVE Pow2(_)
Pow2(n) == IF n <= 0 THEN 1 ELSE 2 * Pow2(n - 1)

\* Number.isInteger(Math.log2(n))
IsPowerOfTwo(n) == \E k \in 0..n : Pow2(k) = n

Log2(n) == CHOOSE k \in 0..n : Pow2(k) = n

\* (i >> (numQubits - 1 - qubit)) & 1
Bit(n, i, qubit) == (i \div Pow2(n - 1 - qubit)) % 2

RECURSIVE SumR(_, _)
SumR(f, S) ==
    IF S = {} THEN <<0, 0>>
    ELSE LET i == CHOOSE x \in S : TRUE
         IN  RAdd(f[i], SumR(f, S \ {i}))

RECURSIVE SumC(_, _)
SumC(f, S) ==
    IF S = {} THEN Zero
    ELSE LET i == CHOOSE x \in S : TRUE
         IN  add(f[i], SumC(f, S \ {i}))

\* sum of |amplitude_i|^2 times the scale
NormSquared(amplitudes) ==
    SumR([i \in DOMAIN amplitudes |-> magnitude2(amplitudes[i])],
         DOMAIN amplitudes)

Abs(k) == IF k < 0 THEN -k ELSE k

\* z / sqrt2 stays in the ring exactly when these differences are even
Halvable(z) == (z[1] - z[3]) % 2 = 0 /\ (z[2] - z[4]) % 2 = 0
DivSqrt2(z) ==
    <<(z[2] - z[4]) \div 2, (z[1] + z[3]) \div 2,
      (z[2] + z[4]) \div 2, (z[3] - z[1]) \div 2>>

\* One value, one representation: common factors of the entries and of the
\* scale are cancelled (floating point has no such redundancy).
RECURSIVE ReduceSqrt2(_, _)
ReduceSqrt2(amplitudes, scale) ==
    IF /\ scale[1] % 2 = 0 /\ scale[2] % 2 = 0
       /\ \A i \in DOMAIN amplitudes : Halvable(amplitudes[i])
    THEN ReduceSqrt2([i \in DOMAIN amplitudes |-> DivSqrt2(amplitudes[i])],
                     <<scale[1] \div 2, scale[2] \div 2>>)
    ELSE [amplitudes |-> amplitudes, scale |-> scale]

Canonical(amplitudes, scale) ==
    IF \A i \in DOMAIN amplitudes : amplitudes[i] = Zero
    THEN [amplitudes |-> amplitudes, scale |-> <<1, 0>>]
    ELSE LET m == Abs(scale[1]) + Abs(scale[2])
             Divides(k) ==
                /\ scale[1] % (k * k) = 0 /\ scale[2] % (k * k) = 0
                /\ \A i \in DOMAIN amplitudes : \A c \in 1..4 :
                      amplitudes[i][c] % k = 0
             k == CHOOSE x \in 1..m :
                     /\ x % 2 = 1 /\ Divides(x)
                     /\ \A y \in (x + 1)..m : ~(y % 2 = 1 /\ Divides(y))
         IN  ReduceSqrt2(
                [i \in DOMAIN amplitudes |->
                    <<amplitudes[i][1] \div k, amplitudes[i][2] \div k,
                      amplitudes[i][3] \div k, amplitudes[i][4] \div k>>],
                <<scale[1] \div (k * k), scale[2] \div (k * k)>>)

\* A register: amplitude i (0-based) is amplitudes[i+1] / sqrt(scale)
MakeState(n, amplitudes, scale) ==
    LET c == Canonical(amplitudes, scale)
    IN  [numQubits |-> n, dimension |-> Pow2(n),
         amplitudes |-> c.amplitudes, scale |-> c.scale]

\* new QuantumState(numQubits): |0...0>
QuantumState(n) ==
    MakeState(n, [i \in 1..Pow2(n) |-> IF i = 1 THEN One ELSE Zero], <<1, 0>>)

fromBasisState(n, basisIndex) ==
    MakeState(n, [i \in 1..Pow2(n) |-> IF i = basisIndex + 1 THEN One ELSE Zero],
              <<1, 0>>)

\* clone() as it would be if it returned the register object itself: the
\* snapshot is marked as being that object
cloneAliased(st) ==
    st @@ [same |-> TRUE]

\* clone(): a new QuantumState with new Complex entries, a deep copy
clone(st) ==
    st

\* What a snapshot shows once the register holds st: a snapshot that is the
\* register object shows st, a copy shows what it recorded
Present(snapshot, st) ==
    IF "same" \in DOMAIN snapshot THEN st @@ [same |-> TRUE] ELSE snapshot

\* sum |amp_i|^2 = 1
UnitNorm(st) == NormSquared(st.amplitudes) = st.scale

\* normalize(): norm < 1e-10 is norm = 0 on exact values of this size
normalize(st) ==
    LET n2 == NormSquared(st.amplitudes)
    IN  IF n2 = <<0, 0>> THEN Fail("ZeroState")
        ELSE Ok(MakeState(st.numQubits, st.amplitudes, n2))

\* What fromAmplitudes leaves behind besides its result: the caller's array
\* as it is afterwards, and whether the state holds the caller's own Complex
\* objects
Passed(amplitudes, aliased) == [caller |-> amplitudes, aliased |-> aliased]

\* fromAmplitudes as it would be if the state kept the caller's objects
fromAmplitudesAliased(amplitudes) ==
    IF ~IsPowerOfTwo(Len(amplitudes))
    THEN Fail("InvalidDimension") @@ Passed(amplitudes, FALSE)
    ELSE IF NormSquared(amplitudes) = <<0, 0>>
    THEN Fail("ZeroState") @@ Passed(amplitudes, FALSE)
    ELSE Ok(MakeState(Log2(Len(amplitudes)), amplitudes,
                      NormSquared(amplitudes))) @@ Passed(amplitudes, TRUE)

\* QuantumState.fromAmplitudes(amplitudes): both tests come before
\* new QuantumState; the entries are cloned (amp.clone()) and normalize()
\* builds new Complex objects again, so nothing is shared and the caller's
\* array is as it was
fromAmplitudes(amplitudes) ==
    IF ~IsPowerOfTwo(Len(amplitudes))
    THEN Fail("InvalidDimension") @@ Passed(amplitudes, FALSE)
    ELSE IF NormSquared(amplitudes) = <<0, 0>>
    THEN Fail("ZeroState") @@ Passed(amplitudes, FALSE)
    ELSE normalize([numQubits |-> Log2(Len(amplitudes)),
                    dimension |-> Len(amplitudes),
                    amplitudes |-> amplitudes, scale |-> <<1, 0>>])
         @@ Passed(amplitudes, FALSE)

\* The sub-index as it would be with the last target qubit shifted in first
RECURSIVE TargetIndexReversed(_, _, _, _)
TargetIndexReversed(n, i, targetQubits, k) ==
    IF k = 0 THEN 0
    ELSE 2 * TargetIndexReversed(n, i, targetQubits, k - 1)
         + Bit(n, i, targetQubits[Len(targetQubits) - k + 1])

\* sub-index of basis index i on the ordered target qubits
RECURSIVE TargetIndex(_, _, _, _)
TargetIndex(n, i, targetQubits, k) ==
    IF k = 0 THEN 0
    ELSE 2 * TargetIndex(n, i, targetQubits, k - 1) + Bit(n, i, targetQubits[k])

Includes(seq, x) == \E k \in DOMAIN seq : seq[k] = x

\* as Allowed would be without the check of the other qubits
AllowedEverywhere(n, i, j, targetQubits) == TRUE

\* transition i <- j allowed: equal bits on every qubit outside the targets
Allowed(n, i, j, targetQubits) ==
    \A q \in 0..(n - 1) :
        Includes(targetQubits, q) \/ Bit(n, i, q) = Bit(n, j, q)

\* createFullGateMatrix(gateMatrix, targetQubits); an entry read outside the
\* gate matrix is undefined
createFullGateMatrix(st, gateMatrix, targetQubits) ==
    IF ~IsPowerOfTwo(gateMatrix.rows) THEN Fail("InvalidDimension")
    ELSE IF Len(targetQubits) # Log2(gateMatrix.rows) THEN Fail("GateArityMismatch")
    ELSE LET n == st.numQubits
             d == st.dimension
             ti(i) == TargetIndex(n, i, targetQubits, Len(targetQubits))
         IN  Ok([i \in 0..(d - 1) |-> [j \in 0..(d - 1) |->
                   IF ~Allowed(n, i, j, targetQubits) THEN Zero
                   ELSE IF ti(j) + 1 > gateMatrix.cols THEN <<>>
                   ELSE gateMatrix.data[ti(i) + 1][ti(j) + 1]]])

\* applyGate(gateMatrix, targetQubits): the register after the gate, or the
\* error thrown (multiplying an undefined entry is a TypeError)
applyGate(st, gateMatrix, targetQubits) ==
    LET full == createFullGateMatrix(st, gateMatrix, targetQubits)
        d == st.dimension
    IN  IF ~full.ok THEN full
        ELSE IF \E i, j \in 0..(d - 1) : full.value[i][j] = <<>>
        THEN Fail("TypeError")
        ELSE Ok(MakeState(st.numQubits,
                [i \in 1..d |->
                    SumC([j \in 1..d |->
                            multiply(full.value[i - 1][j - 1], st.amplitudes[j])],
                         1..d)],
                RScale(gateMatrix.den, st.scale)))

-----------------------------------------------------------------------------
(* Matrix: determinant *)

\* minor(row, col): the matrix without row `row` and column `col` (0-based);
\* fromArray takes cols from the first remaining row
minor(m, row, col) ==
    Matrix(m.rows - 1, m.cols - 1,
           [i \in 1..(m.rows - 1) |-> [j \in 1..(m.cols - 1) |->
               m.data[IF i <= row THEN i ELSE i + 1]
                     [IF j <= col THEN j ELSE j + 1]]],
           m.den)

\* determinant(): the value is num / sqrt(den).  For three rows or more the
\* first term of the expansion calls multiplyScalar on data[0][0], a Complex:
\* Complex has no such method (it is Matrix's) and the call throws a
\* TypeError, after minor(0, 0) was built
determinant(m) ==
    IF m.rows # m.cols THEN Fail("NotSquare")
    ELSE IF m.rows = 1 THEN Ok([num |-> m.data[1][1], den |-> m.den])
    ELSE IF m.rows = 2
    THEN Ok([num |-> subtract(multiply(m.data[1][1], m.data[2][2]),
                              multiply(m.data[1][2], m.data[2][1])),
             den |-> m.den * m.den])
    ELSE IF m.cols = 0 THEN Ok([num |-> Zero, den |-> 1])
    ELSE Fail("TypeError")

\* The Laplace expansion along row 0 of a square array of three rows or
\* more, on 2 x 2 blocks ad - bc: what the expansion loop is written to return
RECURSIVE LaplaceExpansion(_)
LaplaceExpansion(data) ==
    LET n == Len(data)
        sub(col) == [i \in 1..(n - 1) |-> [j \in 1..(n - 1) |->
                        data[i + 1][IF j < col THEN j ELSE j + 1]]]
        term(col) == multiply(multiply(data[1][col],
                                       Complex(IF col % 2 = 1 THEN 1 ELSE -1, 0)),
                              LaplaceExpansion(sub(col)))
    IN  IF n = 1 THEN data[1][1]
        ELSE IF n = 2 THEN subtract(multiply(data[1][1], data[2][2]),
                                    multiply(data[1][2], data[2][1]))
        ELSE SumC([col \in 1..n |-> term(col)], 1..n)

-----------------------------------------------------------------------------
(* QuantumCircuit: the gate program *)

\* A params object is the sequence of its <<key, value>> entries in insertion
\* order.  An optional number is the empty set (undefined) or a singleton.
ObjectValues(params) == [k \in DOMAIN params |-> params[k][2]]

Property(params, key) ==
    {params[k][2] : k \in {x \in DOMAIN params : params[x][1] = key}}

\* JavaScript truthiness of an optional number: undefined and 0 are falsy
Truthy(opt) == opt # {} /\ opt # {0}

ValueOf(opt) == CHOOSE v \in opt : TRUE

\* The record addGate would build if it kept the caller's array and object
GateRecordShared(gateName, targetQubits, params, matrix) ==
    [type |-> "quantum", name |-> gateName,
     targetQubits |-> targetQubits, params |-> params, matrix |-> matrix,
     inputQubits |-> <<>>, outputQubit |-> {}, position |-> {},
     targetsShared |-> TRUE, paramsShared |-> TRUE]

\* The record addGate builds.  targetsShared / paramsShared tell whether the
\* record holds the caller's own array / object ([...targetQubits] and
\* {...params} are fresh copies, so it does not).  The fields a quantum gate
\* lacks (type, inputQubits, outputQubit, position) are "quantum", <<>>, {}, {}.
GateRecord(gateName, targetQubits, params, matrix) ==
    [type |-> "quantum", name |-> gateName,
     targetQubits |-> targetQubits, params |-> params, matrix |-> matrix,
     inputQubits |-> <<>>, outputQubit |-> {}, position |-> {},
     targetsShared |-> FALSE, paramsShared |-> FALSE]

\* A classical pseudo-gate as executeSingleShot and the insertion loop read it
ClassicalGate(gateName, inputQubits, outputQubit, position) ==
    [type |-> "classical", name |-> gateName,
     targetQubits |-> <<>>, params |-> <<>>, matrix |-> <<>>,
     inputQubits |-> inputQubits, outputQubit |-> {outputQubit},
     position |-> position,
     targetsShared |-> FALSE, paramsShared |-> FALSE]

\* existingGate.params?.position || existingGate.position || i
existingPosition(existingGate, i) ==
    LET own == IF existingGate.type = "classical" THEN {}
               ELSE Property(existingGate.params, "position")
    IN  IF Truthy(own) THEN ValueOf(own)
        ELSE IF Truthy(existingGate.position) THEN ValueOf(existingGate.position)
        ELSE i

\* existingGate.targetQubits || existingGate.inputQubits || []
existingGateQubits(existingGate) ==
    IF existingGate.type = "classical" THEN existingGate.inputQubits
    ELSE existingGate.targetQubits

Overlaps(qubits, targetQubits) ==
    \E k \in DOMAIN qubits : Includes(targetQubits, qubits[k])

\* The insertIndex loop, from list index i (0-based) on
RECURSIVE InsertIndexFrom(_, _, _, _, _)
InsertIndexFrom(gs, targetQubits, position, i, insertIndex) ==
    IF i >= Len(gs) THEN insertIndex
    ELSE LET g == gs[i + 1]
             p == existingPosition(g, i)
         IN  IF Overlaps(existingGateQubits(g), targetQubits) /\ p < position
             THEN InsertIndexFrom(gs, targetQubits, position, i + 1, i + 1)
             ELSE IF p >= position THEN insertIndex
             ELSE InsertIndexFrom(gs, targetQubits, position, i + 1, insertIndex)

InsertIndex(gs, targetQubits, position) ==
    InsertIndexFrom(gs, targetQubits, position, 0, Len(gs))

\* Splice as it would be with a delete count of 1: gates.splice(index, 1, gate)
SpliceOver(gs, index, gate) ==
    SubSeq(gs, 1, index) \o <<gate>> \o SubSeq(gs, index + 2, Len(gs))

\* gates.splice(index, 0, gate)
Splice(gs, index, gate) ==
    SubSeq(gs, 1, index) \o <<gate>> \o SubSeq(gs, index + 1, Len(gs))

\* addGate as it would be without the loop that validates the qubit indices
addGateUnvalidated(n, gs, gateName, targetQubits, params) ==
    LET gateInfo == getGateInfo(gateName)
        m == getGate(gateName, ObjectValues(params))
    IN  IF ~gateInfo.ok THEN Fail("UnknownGate")
        ELSE IF Len(targetQubits) # gateInfo.value.qubits
        THEN Fail("GateArityMismatch")
        ELSE IF ~m.ok THEN m
        ELSE Ok(Append(gs, [type |-> "quantum", name |-> gateName,
                            targetQubits |-> targetQubits, params |-> params,
                            matrix |-> m.value,
                            inputQubits |-> <<>>, outputQubit |-> {},
                            position |-> {},
                            targetsShared |-> FALSE, paramsShared |-> FALSE]))

\* addGate(gateName, targetQubits, params): the new gate list, or the error.
\* Error messages are named after the taxonomy: "Unknown gate" UnknownGate,
\* "requires ... qubits" GateArityMismatch, "out of range"
\* QubitIndexOutOfRange, "requires ... parameter" MissingParameter.
addGate(n, gs, gateName, targetQubits, params) ==
    LET gateInfo == getGateInfo(gateName)
        m == getGate(gateName, ObjectValues(params))
        position == Property(params, "position")
    IN  IF ~gateInfo.ok THEN Fail("UnknownGate")
        ELSE IF Len(targetQubits) # gateInfo.value.qubits
        THEN Fail("GateArityMismatch")
        ELSE IF \E k \in DOMAIN targetQubits :
                    targetQubits[k] < 0 \/ targetQubits[k] >= n
        THEN Fail("QubitIndexOutOfRange")
        ELSE IF ~m.ok THEN m
        ELSE LET gate == GateRecord(gateName, targetQubits, params, m.value)
             IN  IF position # {}
                 THEN Ok(Splice(gs, InsertIndex(gs, targetQubits, ValueOf(position)),
                                gate))
                 ELSE Ok(Append(gs, gate))

-----------------------------------------------------------------------------
(* QuantumCircuit: classical pseudo-gates, measurement, collapse *)

\* i ^ (1 << (numQubits - 1 - qubit))
FlipBit(n, i, qubit) ==
    IF Bit(n, i, qubit) = 0 THEN i + Pow2(n - 1 - qubit)
    ELSE i - Pow2(n - 1 - qubit)

\* as WithBit would be without clearing the bit first:
\* i | (value << (numQubits - 1 - qubit))
WithBitUncleared(n, i, qubit, value) ==
    IF value = 1 /\ Bit(n, i, qubit) = 0 THEN FlipBit(n, i, qubit) ELSE i

\* (i & ~mask) | (value << (numQubits - 1 - qubit))
WithBit(n, i, qubit, value) ==
    IF Bit(n, i, qubit) = value THEN i ELSE FlipBit(n, i, qubit)

\* as Dominant would be with the threshold 0.5: 4 |v|^2 > scale
DominantAboveHalf(st, i) ==
    RLess(st.scale, RScale(4, magnitude2(st.amplitudes[i + 1])))

\* amplitudes[i].magnitude() > 0.9, i.e. 100 |v|^2 > 81 scale
Dominant(st, i) ==
    RLess(RScale(81, st.scale), RScale(100, magnitude2(st.amplitudes[i + 1])))

Max(S) == CHOOSE x \in S : \A y \in S : y <= x
Min(S) == CHOOSE x \in S : \A y \in S : x <= y

\* applyClassicalGate(gate) on this.state
applyClassicalGate(st, gate) ==
    LET n == st.numQubits
        d == Pow2(n)
        outputQubit == ValueOf(gate.outputQubit)
        found == {i \in 0..(d - 1) : Dominant(st, i)}
        stateIndex == Min(found)
        bit1 == Bit(n, stateIndex, gate.inputQubits[1])
        bit2 == Bit(n, stateIndex, gate.inputQubits[2])
        basis(targetIndex) == fromBasisState(n, targetIndex)
    IN  CASE gate.name = "NOT" ->
                LET newStateIndex(i) ==
                        WithBit(n, i, outputQubit,
                                1 - Bit(n, i, gate.inputQubits[1]))
                    \* later writes to the same index overwrite earlier ones
                    writers(k) == {i \in 0..(d - 1) : newStateIndex(i) = k}
                IN  MakeState(n,
                        [k \in 1..d |->
                            IF writers(k - 1) = {} THEN Zero
                            ELSE st.amplitudes[Max(writers(k - 1)) + 1]],
                        st.scale)
          [] gate.name = "AND" ->
                IF found = {} THEN st
                ELSE basis(WithBit(n, stateIndex, outputQubit,
                                   IF bit1 = 1 /\ bit2 = 1 THEN 1 ELSE 0))
          [] gate.name = "OR" ->
                IF found = {} THEN st
                ELSE basis(WithBit(n, stateIndex, outputQubit,
                                   IF bit1 = 1 \/ bit2 = 1 THEN 1 ELSE 0))
          [] OTHER -> st

\* getQubitProbabilities(qubit): prob0 and prob1 are declared const and the
\* first "+=" on either throws a TypeError; the loop body runs at least once
getQubitProbabilities(st, qubit) == Fail("TypeError")

\* measureQubit(qubit): fails before the sample is drawn
measureQubit(st, qubit) == getQubitProbabilities(st, qubit)

\* collapseQubit as it would be without the division by sqrt(norm)
collapseQubitUnnormalized(n, st, qubit, result) ==
    [st EXCEPT !.amplitudes =
        [i \in 1..st.dimension |->
            IF Bit(n, i - 1, qubit) = result THEN st.amplitudes[i] ELSE Zero]]

\* collapseQubit as it would be if the projection were installed whatever
\* its norm
collapseQubitUnguarded(n, st, qubit, result) ==
    LET newAmplitudes == [i \in 1..st.dimension |->
                            IF Bit(n, i - 1, qubit) = result
                            THEN st.amplitudes[i] ELSE Zero]
        norm == NormSquared(newAmplitudes)
    IN  IF norm # <<0, 0>> THEN MakeState(st.numQubits, newAmplitudes, norm)
        ELSE [st EXCEPT !.amplitudes = newAmplitudes]

\* collapseQubit(qubit, result); norm > 1e-10 is norm > 0 on exact values
collapseQubit(n, st, qubit, result) ==
    LET d == st.dimension
        kept(i) == Bit(n, i, qubit) = result
        newAmplitudes == [i \in 1..d |->
                            IF kept(i - 1) THEN st.amplitudes[i] ELSE Zero]
        norm == NormSquared(newAmplitudes)
    IN  IF norm # <<0, 0>> THEN MakeState(st.numQubits, newAmplitudes, norm)
        ELSE st

-----------------------------------------------------------------------------
(* QuantumCircuit: execution *)

\* reset() as it would be if it also rebuilt the register
resetToZero(ms, st) ==
    [measurements |-> [k \in DOMAIN ms |-> [ms[k] EXCEPT !.result = {}]],
     state |-> QuantumState(st.numQubits),
     executionHistory |-> <<>>]

\* reset(): measurement results back to null, history emptied, the register
\* left alone
reset(ms, st) ==
    [measurements |-> [k \in DOMAIN ms |-> [ms[k] EXCEPT !.result = {}]],
     state |-> st,
     executionHistory |-> <<>>]

\* gate.matrix || QuantumGates.getGate(gate.name, ...Object.values(gate.params))
gateMatrix(gate) ==
    IF gate.matrix = <<>> THEN getGate(gate.name, ObjectValues(gate.params))
    ELSE Ok(gate.matrix)

\* this.state.applyGate(matrix, gate.targetQubits) with the matrix looked up
applyMatrix(st, matrix, targetQubits) ==
    IF ~matrix.ok THEN matrix ELSE applyGate(st, matrix.value, targetQubits)

\* One gate of the loop applied to the register: the new register, or the
\* error thrown
applyOne(st, gate) ==
    IF gate.type = "classical" THEN Ok(applyClassicalGate(st, gate))
    ELSE applyMatrix(st, gateMatrix(gate), gate.targetQubits)

\* The gate loop of executeSingleShot from gate k on; ops are the records
\* pushed to result.gateOperations so far.  GateApplied is the rest of one
\* pass once the gate's effect `applied` is known.
RECURSIVE ApplyGates(_, _, _, _)
GateApplied(gs, k, st, ops, applied) ==
    IF ~applied.ok
    THEN [ok |-> FALSE, error |-> applied.error, state |-> st, ops |-> ops]
    ELSE ApplyGates(gs, k + 1, applied.value,
            Append(ops, [gate |-> gs[k].name,
                         targetQubits |-> gs[k].targetQubits,
                         params |-> gs[k].params,
                         beforeState |-> clone(st),
                         afterState |-> clone(applied.value)]))

ApplyGates(gs, k, st, ops) ==
    IF k > Len(gs) THEN [ok |-> TRUE, error |-> "none", state |-> st, ops |-> ops]
    ELSE GateApplied(gs, k, st, ops, applyOne(st, gs[k]))

\* executeSingleShot() after its gate loop g: the measurement loop and the
\* result object
Measured(ms, initialState, g) ==
    IF ~g.ok THEN [ok |-> FALSE, error |-> g.error, state |-> g.state]
    ELSE IF Len(ms) > 0
    THEN [ok |-> FALSE, error |-> measureQubit(g.state, ms[1].qubit).error,
          state |-> g.state]
    ELSE [ok |-> TRUE, error |-> "none", state |-> g.state,
          result |-> [initialState |-> initialState,
                      finalState |-> clone(g.state),
                      measurements |-> <<>>,
                      gateOperations |-> g.ops]]

\* executeSingleShot(): the register afterwards and the shot result, or the
\* error thrown and the register as the shot left it
executeSingleShot(n, gs, ms, st) ==
    Measured(ms, clone(st), ApplyGates(gs, 1, st, <<>>))

\* MostProbable as it would be with the sort ascending
LeastProbable(st) ==
    CHOOSE i \in 0..(st.dimension - 1) :
        /\ \A j \in 0..(st.dimension - 1) :
              ~RLess(magnitude2(st.amplitudes[j + 1]), magnitude2(st.amplitudes[i + 1]))
        /\ \A j \in 0..(i - 1) :
              RLess(magnitude2(st.amplitudes[i + 1]), magnitude2(st.amplitudes[j + 1]))

\* Index of the most probable basis state: the first element of the stable
\* descending sort by |amp|^2
MostProbable(st) ==
    CHOOSE i \in 0..(st.dimension - 1) :
        /\ \A j \in 0..(st.dimension - 1) :
              ~RLess(magnitude2(st.amplitudes[i + 1]), magnitude2(st.amplitudes[j + 1]))
        /\ \A j \in 0..(i - 1) :
              RLess(magnitude2(st.amplitudes[j + 1]), magnitude2(st.amplitudes[i + 1]))

\* index.toString(2): the binary digits of index, most significant first
RECURSIVE toString2(_)
toString2(index) ==
    IF index < 2 THEN <<index>>
    ELSE toString2(index \div 2) \o <<index % 2>>

\* digits.padStart(n, '0')
padStart(digits, n) ==
    IF Len(digits) >= n THEN digits
    ELSE [k \in 1..(n - Len(digits)) |-> 0] \o digits

\* aggregateResults(results).  The raw single-shot result has no aggregate
\* fields: aggregated FALSE, shots {}.  measurementStats maps a measured qubit
\* to the number of records with result 0 and with result 1, and
\* bitStringProbabilities maps a bit string (the digits of a basis index) to
\* the number of shots counted for it; the probability is that count over
\* shots.  this.numQubits is the register's qubit count.
aggregateResults(results) ==
    LET raw == [aggregated |-> FALSE, shots |-> {},
                measurementStats |-> <<>>, bitStringProbabilities |-> <<>>]
        records == {<<k, j>> \in (DOMAIN results) \X (1..MaxMeasurements) :
                       j \in DOMAIN results[k].measurements}
        meas(r) == results[r[1]].measurements[r[2]]
        measured == {meas(r).qubit : r \in records}
        stats == [q \in measured |-> [b \in {0, 1} |->
                     Cardinality({r \in records :
                                     meas(r).qubit = q /\ meas(r).result = b})]]
        bitString(k) == padStart(toString2(MostProbable(results[k].finalState)),
                                 results[k].finalState.numQubits)
        counts == [b \in {bitString(k) : k \in DOMAIN results} |->
                     Cardinality({k \in DOMAIN results : bitString(k) = b})]
    IN  IF Len(results) = 1 THEN results[1] @@ raw
        ELSE (IF Len(results) = 0 THEN <<>> ELSE results[1]) @@
             [aggregated |-> TRUE, shots |-> {Len(results)},
              measurementStats |-> stats, bitStringProbabilities |-> counts]

\* The snapshots of shot results as they show once the register holds st
PresentRecord(op, st) ==
    [op EXCEPT !.beforeState = Present(op.beforeState, st),
               !.afterState = Present(op.afterState, st)]

PresentResult(result, st) ==
    [result EXCEPT !.initialState = Present(result.initialState, st),
                   !.finalState = Present(result.finalState, st),
                   !.gateOperations =
                       [k \in DOMAIN result.gateOperations |->
                           PresentRecord(result.gateOperations[k], st)]]

PresentAll(results, st) ==
    [k \in DOMAIN results |-> PresentResult(results[k], st)]

\* What run(shots) leaves and returns after its last shot
Returned(ms, st, history, results) ==
    [ok |-> TRUE, error |-> "none", state |-> st, measurements |-> ms,
     executionHistory |-> history, results |-> results,
     value |-> aggregateResults(results)]

\* What run(shots) leaves when shot e threw: the error propagates
Thrown(r, e, results) ==
    [ok |-> FALSE, error |-> e.error, state |-> e.state,
     measurements |-> r.measurements,
     executionHistory |-> r.executionHistory, results |-> results,
     value |-> <<>>]

\* The shot loop as it would be if every shot worked on the register that run
\* was called with
RECURSIVE RunShotsFromStart(_, _, _, _, _, _, _, _)
ShotDoneFromStart(n, gs, st, shot, shots, results, r, e) ==
    IF ~e.ok THEN Thrown(r, e, results)
    ELSE RunShotsFromStart(n, gs, r.measurements, st,
                  Append(r.executionHistory, e.result),
                  shot + 1, shots, Append(results, e.result))

RunShotsFromStart(n, gs, ms, st, history, shot, shots, results) ==
    IF shot >= shots THEN Returned(ms, st, history, results)
    ELSE ShotDoneFromStart(n, gs, st, shot, shots, results, reset(ms, st),
            executeSingleShot(n, gs, reset(ms, st).measurements,
                              reset(ms, st).state))

\* The shot loop of run(shots) from shot number `shot` (0-based) on.
\* ShotDone is the rest of one pass once reset() gave r and
\* executeSingleShot() gave e.
RECURSIVE RunShots(_, _, _, _, _, _, _, _)
ShotDone(n, gs, shot, shots, results, r, e) ==
    IF ~e.ok THEN Thrown(r, e, results)
    ELSE RunShots(n, gs, r.measurements, e.state,
                  Append(r.executionHistory, e.result),
                  shot + 1, shots, Append(results, e.result))

RunShots(n, gs, ms, st, history, shot, shots, results) ==
    IF shot >= shots
    THEN Returned(ms, st, PresentAll(history, st), PresentAll(results, st))
    ELSE ShotDone(n, gs, shot, shots, results, reset(ms, st),
            executeSingleShot(n, gs, reset(ms, st).measurements,
                              reset(ms, st).state))

\* run(shots)
run(n, gs, ms, st, history, shots) ==
    RunShots(n, gs, ms, st, history, 0, shots, <<>>)

-----------------------------------------------------------------------------
(* Operations *)

Op(op, name, args) == [op |-> op, name |-> name, args |-> args]

\* What an operation returned or threw; results is run's local list of
\* per-shot results
Outcome(ok, error, value, results) ==
    [ok |-> ok, error |-> error, value |-> value, results |-> results]

\* The caller passes a new array and a new params object: no queued gate
\* shares them
Unshared(gs) ==
    [k \in DOMAIN gs |-> [gs[k] EXCEPT !.targetsShared = FALSE,
                                       !.paramsShared = FALSE]]

\* new QuantumCircuit(numQubits)
Init ==
    /\ numQubits \in 1..MaxQubits
    /\ gates = <<>>
    /\ measurements = <<>>
    /\ state = QuantumState(numQubits)
    /\ executionHistory = <<>>
    /\ callerTargets = <<>>
    /\ callerParams = <<>>
    /\ lastOp = Op("new", "", <<>>)
    /\ lastResult = Outcome(TRUE, "none", <<>>, <<>>)
    /\ runs = 0
    /\ calls = 0

\* circuit.addGate(gateName, targetQubits, params)
AddGate(gateName, targetQubits, params) ==
    \E r \in {addGate(numQubits, Unshared(gates), gateName, targetQubits, params)} :
        /\ gates' = IF r.ok THEN r.value ELSE Unshared(gates)
        /\ callerTargets' = targetQubits
        /\ callerParams' = params
        /\ lastOp' = Op("addGate", gateName, <<>>)
        /\ lastResult' = Outcome(r.ok, r.error, <<>>, <<>>)
        /\ UNCHANGED <<numQubits, measurements, state, executionHistory, runs>>

\* The caller writes value into element k of the array it passed to addGate
MutateCallerTargets(k, value) ==
    /\ lastOp.op \in {"addGate", "mutateTargets", "mutateParams"}
    /\ k \in DOMAIN callerTargets
    /\ callerTargets[k] # value
    /\ callerTargets' = [callerTargets EXCEPT ![k] = value]
    /\ gates' = [i \in DOMAIN gates |->
                    IF gates[i].targetsShared
                    THEN [gates[i] EXCEPT !.targetQubits[k] = value]
                    ELSE gates[i]]
    /\ lastOp' = Op("mutateTargets", lastOp.name, <<k, value>>)
    /\ UNCHANGED <<numQubits, measurements, state, executionHistory,
                   callerParams, lastResult, runs>>

\* The caller writes value into entry k of the params object it passed
MutateCallerParams(k, value) ==
    /\ lastOp.op \in {"addGate", "mutateTargets", "mutateParams"}
    /\ k \in DOMAIN callerParams
    /\ callerParams[k][2] # value
    /\ callerParams' = [callerParams EXCEPT ![k][2] = value]
    /\ gates' = [i \in DOMAIN gates |->
                    IF gates[i].paramsShared
                    THEN [gates[i] EXCEPT !.params[k][2] = value]
                    ELSE gates[i]]
    /\ lastOp' = Op("mutateParams", lastOp.name, <<k, value>>)
    /\ UNCHANGED <<numQubits, measurements, state, executionHistory,
                   callerTargets, lastResult, runs>>

\* A classical pseudo-gate is queued by pushing its record onto circuit.gates
AddClassicalGate(gateName, inputQubits, outputQubit, position) ==
    /\ Len(gates) < MaxGates
    /\ gates' = Append(gates, ClassicalGate(gateName, inputQubits, outputQubit,
                                            position))
    /\ lastOp' = Op("addClassicalGate", gateName, inputQubits \o <<outputQubit>>)
    /\ lastResult' = Outcome(TRUE, "none", <<>>, <<>>)
    /\ UNCHANGED <<numQubits, measurements, state, executionHistory,
                   callerTargets, callerParams, runs>>

\* circuit.addMeasurement(qubit)
AddMeasurement(qubit) ==
    LET ok == ~(qubit < 0 \/ qubit >= numQubits)
    IN  /\ Len(measurements) < MaxMeasurements
        /\ measurements' = IF ok
                           THEN Append(measurements, [qubit |-> qubit, result |-> {}])
                           ELSE measurements
        /\ lastOp' = Op("addMeasurement", "", <<qubit>>)
        /\ lastResult' = Outcome(ok, IF ok THEN "none" ELSE "QubitIndexOutOfRange",
                                 <<>>, <<>>)
        /\ UNCHANGED <<numQubits, gates, state, executionHistory,
                       callerTargets, callerParams, runs>>

\* CircuitBuilder.reset(): gates and measurements emptied
ClearCircuit ==
    /\ gates # <<>> \/ measurements # <<>>
    /\ gates' = <<>>
    /\ measurements' = <<>>
    /\ lastOp' = Op("clear", "", <<>>)
    /\ lastResult' = Outcome(TRUE, "none", <<>>, <<>>)
    /\ UNCHANGED <<numQubits, state, executionHistory,
                   callerTargets, callerParams, runs>>

\* circuit.state = QuantumState.fromAmplitudes(amplitudes)
SetInputState(amplitudes) ==
    \E r \in {fromAmplitudes(amplitudes)} :
        /\ state' = IF r.ok THEN r.value ELSE state
        /\ lastOp' = Op("fromAmplitudes", "", <<amplitudes>>)
        /\ lastResult' = Outcome(r.ok, r.error,
                                 [amplitudes |-> r.caller, aliased |-> r.aliased],
                                 <<>>)
        /\ UNCHANGED <<numQubits, gates, measurements, executionHistory,
                       callerTargets, callerParams, runs>>

\* The caller writes value into the Complex object at index k (1-based here)
\* of the array it passed to fromAmplitudes
MutateCallerAmplitude(k, value) ==
    /\ lastOp.op \in {"fromAmplitudes", "mutateAmplitude"}
    /\ k \in DOMAIN lastResult.value.amplitudes
    /\ lastResult.value.amplitudes[k] # value
    /\ lastResult' = [lastResult EXCEPT !.value.amplitudes[k] = value]
    /\ state' = IF lastResult.ok /\ lastResult.value.aliased
                THEN MakeState(state.numQubits,
                               [state.amplitudes EXCEPT ![k] = value],
                               state.scale)
                ELSE state
    /\ lastOp' = Op("mutateAmplitude", "", <<k, value>>)
    /\ UNCHANGED <<numQubits, gates, measurements, executionHistory,
                   callerTargets, callerParams, runs>>

\* circuit.run(shots)
Run(shots) ==
    \E r \in {run(numQubits, gates, measurements, state, executionHistory, shots)} :
        /\ runs' = runs + 1
        /\ state' = r.state
        /\ measurements' = r.measurements
        /\ executionHistory' = r.executionHistory
        /\ lastOp' = Op("run", "", <<shots>>)
        /\ lastResult' = Outcome(r.ok, r.error, r.value, r.results)
        /\ UNCHANGED <<numQubits, gates, callerTargets, callerParams>>

\* circuit.measureQubit(qubit)
MeasureQubit(qubit) ==
    LET r == measureQubit(state, qubit)
    IN  /\ lastOp' = Op("measureQubit", "", <<qubit>>)
        /\ lastResult' = Outcome(r.ok, r.error, <<>>, <<>>)
        /\ UNCHANGED <<numQubits, gates, measurements, state, executionHistory,
                       callerTargets, callerParams, runs>>

\* circuit.collapseQubit(qubit, result)
CollapseQubit(qubit, result) ==
    /\ state' = collapseQubit(numQubits, state, qubit, result)
    /\ executionHistory' = PresentAll(executionHistory, state')
    /\ lastOp' = Op("collapseQubit", "", <<qubit, result>>)
    /\ lastResult' = Outcome(TRUE, "none", <<>>, <<>>)
    /\ UNCHANGED <<numQubits, gates, measurements,
                   callerTargets, callerParams, runs>>

-----------------------------------------------------------------------------
(* The circuit engine: build, configure, run *)

Qubits == 0..(numQubits - 1)

\* Calls that addGate accepts, one with a repeated target qubit
ProgramCalls ==
    {<<"H", <<0>>, <<>>>>,
     <<"T", <<0>>, <<>>>>,
     <<"X", <<numQubits - 1>>, <<>>>>,
     <<"RX", <<0>>, << <<"angle", MaxAngle>> >> >>,
     <<"CNOT", <<0, numQubits - 1>>, <<>>>>,
     <<"CNOT", <<numQubits - 1, numQubits - 1>>, <<>>>>}

ClassicalCalls ==
    {<<"NOT", <<0>>, numQubits - 1>>,
     <<"NOT", <<numQubits - 1>>, numQubits - 1>>,
     <<"AND", <<0, numQubits - 1>>, 0>>,
     <<"OR", <<0, numQubits - 1>>, numQubits - 1>>}

\* Caller amplitudes for fromAmplitudes on this register size, with the zero
\* vector and a vector of length 3
InputAmplitudes ==
    {[i \in 1..Pow2(numQubits) |-> IF i = 1 THEN Complex(1, 2) ELSE Zero],
     [i \in 1..Pow2(numQubits) |-> IF i = Pow2(numQubits) THEN Complex(0, 2) ELSE Complex(1, 0)],
     [i \in 1..Pow2(numQubits) |-> Zero],
     <<One, Zero, One>>}

\* Every operation of a session counts against the session's length
Tick == calls < MaxCalls /\ calls' = calls + 1

AddGateStep ==
    /\ Tick
    /\ Len(gates) < MaxGates
    /\ \E c \in ProgramCalls : AddGate(c[1], c[2], c[3])
AddClassicalGateStep ==
    Tick /\ \E c \in ClassicalCalls : AddClassicalGate(c[1], c[2], c[3], {})
AddMeasurementStep ==
    Tick /\ \E q \in {0, numQubits} : AddMeasurement(q)
ClearCircuitStep ==
    Tick /\ ClearCircuit
SetInputStateStep ==
    Tick /\ \E a \in InputAmplitudes : SetInputState(a)
RunStep ==
    Tick /\ \E shots \in 1..MaxShots : Run(shots)
MeasureQubitStep ==
    Tick /\ \E q \in {0} : MeasureQubit(q)
CollapseQubitStep ==
    Tick /\ \E q \in {numQubits - 1}, r \in {0, 1} : CollapseQubit(q, r)

Next ==
    \/ AddGateStep
    \/ AddClassicalGateStep
    \/ AddMeasurementStep
    \/ ClearCircuitStep
    \/ SetInputStateStep
    \/ RunStep
    \/ MeasureQubitStep
    \/ CollapseQubitStep

Spec == Init /\ [][Next]_vars

-----------------------------------------------------------------------------
(* Gates on deterministic basis states *)

\* A register of up to MaxRegister qubits prepared in a basis state |i>
InitBasis ==
    /\ numQubits \in 1..MaxRegister
    /\ gates = <<>>
    /\ measurements = <<>>
    /\ \E i \in 0..(Pow2(numQubits) - 1) :
          /\ state = fromBasisState(numQubits, i)
          /\ lastOp = Op("fromBasisState", "", <<i>>)
    /\ executionHistory = <<>>
    /\ callerTargets = <<>>
    /\ callerParams = <<>>
    /\ lastResult = Outcome(TRUE, "none", <<>>, <<>>)
    /\ runs = 0
    /\ calls = 0

\* state.applyGate(QuantumGates.CNOT(), [c, t]) on |i>
ApplyCNOT ==
    /\ lastOp.op = "fromBasisState"
    /\ \E c, t \in Qubits :
          /\ c # t
          /\ \E r \in {applyGate(state, CNOT, <<c, t>>)} :
                /\ state' = IF r.ok THEN r.value ELSE state
                /\ lastResult' = Outcome(r.ok, r.error, <<CNOT.rows, CNOT.cols>>, <<>>)
          /\ lastOp' = Op("applyGate", "CNOT", <<lastOp.args[1], c, t>>)
    /\ UNCHANGED <<numQubits, gates, measurements, executionHistory,
                   callerTargets, callerParams, runs, calls>>

\* applyClassicalGate({name: 'NOT', inputQubits: [a], outputQubit: b}) on |i>
ApplyNOT ==
    /\ lastOp.op = "fromBasisState"
    /\ \E a, b \in Qubits :
          /\ state' = applyClassicalGate(state, ClassicalGate("NOT", <<a>>, b, {}))
          /\ lastOp' = Op("applyClassicalGate", "NOT", <<lastOp.args[1], a, b>>)
    /\ lastResult' = Outcome(TRUE, "none", <<>>, <<>>)
    /\ UNCHANGED <<numQubits, gates, measurements, executionHistory,
                   callerTargets, callerParams, runs, calls>>

\* The matrices handed to state.applyGate directly, by name; I3 is
\* Matrix.identity(3), a matrix whose size is not a power of two
BasisGateNames == {"H", "RX", "CZ", "SWAP", "U", "I3"}

BasisGate(name) ==
    CASE name = "H" -> Hadamard
      [] name = "RX" -> RotationX(MaxAngle)
      [] name = "CZ" -> CZ
      [] name = "SWAP" -> SWAP
      [] name = "U" -> U(0, 0, 0)
      [] name = "I3" -> identity(3)

\* target lists of one or two qubits, repeated qubits included
TargetLists ==
    {<<q>> : q \in Qubits} \cup {<<p, q>> : p, q \in Qubits}

\* state.applyGate(gateMatrix, targetQubits) on |i>, whatever the number of
\* targets; a throw leaves this.amplitudes as it was
ApplyGate ==
    /\ lastOp.op = "fromBasisState"
    /\ \E name \in BasisGateNames, targetQubits \in TargetLists :
          /\ \E r \in {applyGate(state, BasisGate(name), targetQubits)} :
                /\ state' = IF r.ok THEN r.value ELSE state
                /\ lastResult' = Outcome(r.ok, r.error,
                                         <<BasisGate(name).rows,
                                           BasisGate(name).cols>>, <<>>)
          /\ lastOp' = Op("applyGate", name, <<lastOp.args[1]>> \o targetQubits)
    /\ UNCHANGED <<numQubits, gates, measurements, executionHistory,
                   callerTargets, callerParams, runs, calls>>

\* applyClassicalGate({name: 'AND' | 'OR', inputQubits: [a, b],
\* outputQubit: c}) on the register as prepared or as a gate left it
ApplyLogic ==
    /\ lastOp.op \in {"fromBasisState", "applyGate"}
    /\ \E name \in {"AND", "OR"}, a, b, c \in Qubits :
          /\ state' = applyClassicalGate(state,
                                         ClassicalGate(name, <<a, b>>, c, {}))
          /\ lastOp' = Op("applyClassicalGate", name, <<a, b, c>>)
    /\ lastResult' = Outcome(TRUE, "none", <<>>, <<>>)
    /\ UNCHANGED <<numQubits, gates, measurements, executionHistory,
                   callerTargets, callerParams, runs, calls>>

NextBasis ==
    \/ ApplyCNOT
    \/ ApplyNOT
    \/ ApplyGate
    \/ ApplyLogic

SpecBasis == InitBasis /\ [][NextBasis]_vars

-----------------------------------------------------------------------------
(* CircuitBuilder: createCircuit and the calls it forwards *)

\* this.maxQubits
maxQubits == 8

\* new CircuitBuilder(): this.circuit = null, shown as a builder without
\* register (state = <<>>, numQubits = 0)
InitBuilder ==
    /\ numQubits = 0
    /\ gates = <<>>
    /\ measurements = <<>>
    /\ state = <<>>
    /\ executionHistory = <<>>
    /\ callerTargets = <<>>
    /\ callerParams = <<>>
    /\ lastOp = Op("newBuilder", "", <<>>)
    /\ lastResult = Outcome(TRUE, "none", <<>>, <<>>)
    /\ runs = 0
    /\ calls = 0

\* builder.createCircuit(n): this.circuit = new QuantumCircuit(n)
CreateCircuit(n) ==
    /\ numQubits' = n
    /\ gates' = <<>>
    /\ measurements' = <<>>
    /\ state' = QuantumState(n)
    /\ executionHistory' = <<>>
    /\ lastOp' = Op("createCircuit", "", <<n>>)
    /\ lastResult' = Outcome(TRUE, "none", <<>>, <<>>)
    /\ UNCHANGED <<callerTargets, callerParams, runs>>

\* A forwarding method called while this.circuit is null
NoCircuit(op) ==
    /\ state = <<>>
    /\ lastOp' = Op(op, "", <<>>)
    /\ lastResult' = Outcome(FALSE, "NoCircuit", <<>>, <<>>)
    /\ UNCHANGED <<numQubits, gates, measurements, state, executionHistory,
                   callerTargets, callerParams, runs>>

BuilderCreateCircuit ==
    /\ \E n \in 1..MaxRequested : CreateCircuit(n)
    /\ UNCHANGED calls

\* builder.addGate(gateName, targetQubits, params)
BuilderAddGate ==
    /\ \/ NoCircuit("addGate")
       \/ /\ state # <<>>
          /\ Len(gates) < MaxGates
          /\ \E c \in {<<"H", <<0>>, <<>>>>, <<"X", <<numQubits - 1>>, <<>>>>} :
                AddGate(c[1], c[2], c[3])
    /\ UNCHANGED calls

\* builder.addMeasurement(qubit)
BuilderAddMeasurement ==
    /\ \/ NoCircuit("addMeasurement")
       \/ state # <<>> /\ AddMeasurement(numQubits - 1)
    /\ UNCHANGED calls

\* builder.reset()
BuilderReset ==
    /\ state # <<>>
    /\ ClearCircuit
    /\ UNCHANGED calls

NextBuilder ==
    \/ BuilderCreateCircuit
    \/ BuilderAddGate
    \/ BuilderAddMeasurement
    \/ BuilderReset

SpecBuilder == InitBuilder /\ [][NextBuilder]_vars

-----------------------------------------------------------------------------
(* Complex arithmetic on its own *)

\* Values with integer parts of size up to MaxPart
ComplexValues == {Complex(re, im) : re, im \in (-MaxPart)..MaxPart}

\* A caller about to divide x by y
InitComplex ==
    /\ numQubits = 1
    /\ gates = <<>>
    /\ measurements = <<>>
    /\ state = QuantumState(numQubits)
    /\ executionHistory = <<>>
    /\ callerTargets = <<>>
    /\ callerParams = <<>>
    /\ lastOp \in {Op("input", "divide", <<x, y>>) : x, y \in ComplexValues}
    /\ lastResult = Outcome(TRUE, "none", <<>>, <<>>)
    /\ runs = 0
    /\ calls = 0

\* x.divide(y)
Divide ==
    /\ lastOp.op = "input" /\ lastOp.name = "divide"
    /\ \E r \in {divide(lastOp.args[1], lastOp.args[2])} :
          /\ lastOp' = Op("divide", "", lastOp.args)
          /\ lastResult' = Outcome(r.ok, r.error, r.value, <<>>)
    /\ UNCHANGED <<numQubits, gates, measurements, state, executionHistory,
                   callerTargets, callerParams, runs, calls>>

NextComplex == Divide

SpecComplex == InitComplex /\ [][NextComplex]_vars

-----------------------------------------------------------------------------
(* fromAmplitudes and the caller's array *)

InputSetState ==
    /\ \E a \in InputAmplitudes : SetInputState(a)
    /\ UNCHANGED calls

InputMutated ==
    /\ \E k \in 1..Pow2(numQubits), value \in {Zero, One, Complex(0, 2)} :
          MutateCallerAmplitude(k, value)
    /\ UNCHANGED calls

NextInput ==
    \/ InputSetState
    \/ InputMutated

SpecInput == Init /\ [][NextInput]_vars

-----------------------------------------------------------------------------
(* Properties of the circuit engine *)

\* C1: a run of a circuit with no gates and no measurements leaves the
\* register exactly as it was, phase included, and every shot's finalState
\* (so the returned one too) holds those same amplitudes; the register is
\* never put back to |0...0>.
C1_EmptyRunPreservesRegister ==
    [][(lastOp'.op = "run" /\ gates = <<>> /\ measurements = <<>>)
          => /\ lastResult'.ok
             /\ state' = state
             /\ lastResult'.value.finalState = state
             /\ \A k \in DOMAIN lastResult'.results :
                   lastResult'.results[k].finalState = state]_vars

\* Two runs of an empty circuit behind an installed state (1+2i, 0, ...)
C1_Witness ==
    /\ lastOp.op = "run" /\ runs >= 2
    /\ gates = <<>> /\ measurements = <<>>
    /\ state.amplitudes[1] = Complex(1, 2)
    /\ state # QuantumState(numQubits)
    /\ lastResult.value.finalState = state

\* C2: the register has unit norm in every reachable state.
C2_UnitNormAlways == UnitNorm(state)

\* C3: in run(shots = N) the first shot starts from the register as it was
\* when run was called, shot k+1 starts from the finalState of shot k, and
\* when run returns the register equals the last shot's finalState.
C3_ShotsChain ==
    [][(lastOp'.op = "run" /\ lastResult'.ok)
          => LET rs == lastResult'.results
                 N == lastOp'.args[1]
             IN  /\ Len(rs) = N
                 /\ rs[1].initialState = state
                 /\ \A k \in 1..(N - 1) : rs[k + 1].initialState = rs[k].finalState
                 /\ state' = rs[N].finalState]_vars

\* A two-shot run whose gates change the register in both shots
C3_Witness ==
    /\ lastOp.op = "run" /\ lastResult.ok
    /\ Len(lastResult.results) >= 2
    /\ lastResult.results[1].finalState # lastResult.results[1].initialState
    /\ lastResult.results[2].finalState # lastResult.results[2].initialState
    /\ lastResult.results[2].finalState # lastResult.results[1].initialState

-----------------------------------------------------------------------------
(* addGate over the catalog names: validation and the errors it raises *)

\* addGate calls with right and wrong names, targets and params objects
CatalogCalls ==
    {<<"H", <<0>>, <<>>>>,
     <<"cnot", <<0, numQubits - 1>>, <<>>>>,
     <<"RX", <<0>>, << <<"angle", MaxAngle>> >> >>,
     <<"RX", <<0>>, <<>>>>,
     <<"RX", <<0>>, << <<"position", MaxPosition>> >> >>,
     <<"RX", <<0>>, << <<"position", MaxPosition>>, <<"angle", MaxAngle>> >> >>,
     <<"crz", <<0, numQubits - 1>>, << <<"angle", MaxAngle>> >> >>,
     <<"CRZ", <<0, numQubits - 1>>, <<>>>>,
     <<"U", <<0>>, << <<"theta", 0>>, <<"phi", 0>>, <<"lambda", MaxAngle>> >> >>,
     <<"Rk", <<0>>, << <<"k", 1>> >> >>,
     <<"hadamard", <<0>>, <<>>>>,
     <<"foo", <<0>>, <<>>>>,
     <<"foo", <<0, numQubits>>, <<>>>>,
     <<"H", <<0, numQubits>>, <<>>>>,
     <<"H", <<numQubits>>, <<>>>>,
     <<"H", <<-1>>, <<>>>>,
     <<"CNOT", <<0>>, <<>>>>,
     <<"RX", <<numQubits>>, <<>>>>}

CatalogAddGate ==
    /\ Len(gates) < MaxGates
    /\ \E c \in CatalogCalls : AddGate(c[1], c[2], c[3])
    /\ UNCHANGED calls

CatalogAddMeasurement ==
    /\ \E q \in {0, numQubits} : AddMeasurement(q)
    /\ UNCHANGED calls

CatalogSetInputState ==
    /\ \E a \in InputAmplitudes : SetInputState(a)
    /\ UNCHANGED calls

NextAdd ==
    \/ CatalogAddGate
    \/ CatalogAddMeasurement
    \/ CatalogSetInputState

SpecAdd == Init /\ [][NextAdd]_vars

-----------------------------------------------------------------------------
(* addGate with params.position: where the new gate lands *)

\* One-qubit gates with and without a requested position
PositionCalls ==
    {<<"H", <<0>>, <<>>>>,
     <<"Z", <<numQubits - 1>>, << <<"position", MaxPosition>> >> >>}
    \cup {<<"X", <<0>>, << <<"position", p>> >> >> : p \in 0..MaxPosition}

InsertGate ==
    /\ Len(gates) < MaxListed
    /\ \E c \in PositionCalls : AddGate(c[1], c[2], c[3])
    /\ UNCHANGED calls

NextInsert == InsertGate

SpecInsert == Init /\ [][NextInsert]_vars

-----------------------------------------------------------------------------
(* The caller's array and params object after addGate has returned *)

CallerCalls ==
    {<<"RX", <<0>>, << <<"angle", MaxAngle>> >> >>,
     <<"CNOT", <<0, numQubits - 1>>, <<>>>>,
     <<"X", <<numQubits - 1>>, << <<"position", 0>> >> >>,
     <<"RZ", <<0>>, << <<"position", MaxPosition>>, <<"angle", MaxAngle>> >> >>}

CallerAddGate ==
    /\ Tick
    /\ Len(gates) < MaxGates
    /\ \E c \in CallerCalls : AddGate(c[1], c[2], c[3])

CallerMutatesTargets ==
    Tick /\ \E k \in 1..2, value \in 0..(MaxQubits - 1) : MutateCallerTargets(k, value)

CallerMutatesParams ==
    Tick /\ \E k \in 1..2, value \in 0..(MaxAngle + 1) : MutateCallerParams(k, value)

CallerRuns ==
    Tick /\ Run(1)

NextCaller ==
    \/ CallerAddGate
    \/ CallerMutatesTargets
    \/ CallerMutatesParams
    \/ CallerRuns

SpecCaller == Init /\ [][NextCaller]_vars

-----------------------------------------------------------------------------
(* The catalog by name: getGate on every name and alias *)

GateNames ==
    {"H", "HADAMARD", "h", "hadamard", "X", "PAULI_X", "Y", "PAULI_Y",
     "Z", "PAULI_Z", "S", "PHASE", "T", "T_GATE",
     "RX", "ROTATION_X", "Rx", "RY", "ROTATION_Y", "RZ", "ROTATION_Z",
     "CNOT", "CONTROLLED_NOT", "cnot", "CZ", "CONTROLLED_Z",
     "CRZ", "CONTROLLED_RZ", "crz", "SWAP", "TOFFOLI", "CCNOT",
     "FREDKIN", "CSWAP", "U", "RK", "Rk", "FOO", "foo"}

\* Argument lists: none, one angle, a (theta, phi, lambda) triplet
GateArguments ==
    {<<>>}
    \cup {<<a>> : a \in 0..MaxAngle}
    \cup {<<a, b, c>> : a, b, c \in 0..MaxAngle}

\* A caller about to ask the catalog for a gate
InitCatalog ==
    /\ numQubits = 1
    /\ gates = <<>>
    /\ measurements = <<>>
    /\ state = QuantumState(numQubits)
    /\ executionHistory = <<>>
    /\ callerTargets = <<>>
    /\ callerParams = <<>>
    /\ lastOp \in {Op("input", gateName, params) :
                      gateName \in GateNames, params \in GateArguments}
    /\ lastResult = Outcome(TRUE, "none", <<>>, <<>>)
    /\ runs = 0
    /\ calls = 0

\* QuantumGates.getGate(gateName, ...params)
GetGate ==
    /\ lastOp.op = "input"
    /\ \E r \in {getGate(lastOp.name, lastOp.args)} :
          /\ lastOp' = Op("getGate", lastOp.name, lastOp.args)
          /\ lastResult' = Outcome(r.ok, r.error, r.value, <<>>)
    /\ UNCHANGED <<numQubits, gates, measurements, state, executionHistory,
                   callerTargets, callerParams, runs, calls>>

\* matrix.determinant() on the matrix the catalog returned
Determinant ==
    /\ lastOp.op = "getGate"
    /\ lastResult.ok
    /\ \E r \in {determinant(lastResult.value)} :
          /\ lastOp' = Op("determinant", lastOp.name, lastOp.args)
          /\ lastResult' = Outcome(r.ok, r.error,
                                   [matrix |-> lastResult.value,
                                    det |-> IF r.ok THEN r.value ELSE <<>>],
                                   <<>>)
    /\ UNCHANGED <<numQubits, gates, measurements, state, executionHistory,
                   callerTargets, callerParams, runs, calls>>

NextCatalog ==
    \/ GetGate
    \/ Determinant

SpecCatalog == InitCatalog /\ [][NextCatalog]_vars

-----------------------------------------------------------------------------
(* Properties of addGate and of the catalog *)

\* C4: addGate fails with UnknownGate when the name has no metadata, with
\* GateArityMismatch when the number of targets differs from the declared
\* arity, and with QubitIndexOutOfRange when a target index is outside
\* [0, numQubits) (the checks are made in that order); whenever addGate
\* fails, the gate list, the measurement list and the register are unchanged.
C4_AddGateErrors ==
    [][lastOp'.op = "addGate"
          => LET gateInfo == getGateInfo(lastOp'.name)
                 t == callerTargets'
                 outside == \E k \in DOMAIN t : t[k] < 0 \/ t[k] >= numQubits
             IN  /\ ~gateInfo.ok => lastResult'.error = "UnknownGate"
                 /\ (gateInfo.ok /\ Len(t) # gateInfo.value.qubits)
                       => lastResult'.error = "GateArityMismatch"
                 /\ (gateInfo.ok /\ Len(t) = gateInfo.value.qubits /\ outside)
                       => lastResult'.error = "QubitIndexOutOfRange"
                 /\ ~lastResult'.ok
                       => /\ gates' = gates
                          /\ measurements' = measurements
                          /\ state' = state]_vars

\* An out-of-range target refused on a circuit that holds a gate, a
\* measurement and an installed register
C4_Witness ==
    /\ lastOp.op = "addGate" /\ lastResult.error = "QubitIndexOutOfRange"
    /\ callerTargets = <<numQubits>>
    /\ gates # <<>> /\ measurements # <<>>
    /\ state # QuantumState(numQubits)

\* C5: with params.position = p, the new gate is placed before the first
\* existing gate whose effective position is >= p; the effective position of
\* an existing gate is its own position whenever it has one (0 included) and
\* its list index otherwise.
C5_BeforeFirstLaterGate ==
    [][(/\ lastOp'.op = "addGate" /\ lastResult'.ok
        /\ Property(callerParams', "position") # {})
          => LET p == ValueOf(Property(callerParams', "position"))
                 own(i) == Property(gates[i + 1].params, "position")
                 effective(i) == IF own(i) # {} THEN ValueOf(own(i)) ELSE i
                 later == {i \in 0..(Len(gates) - 1) : effective(i) >= p}
             IN  later # {}
                    => \E k \in 0..Min(later) :
                          /\ gates'[k + 1].name = lastOp'.name
                          /\ gates'[k + 1].targetQubits = callerTargets'
                          /\ gates' = Splice(gates, k, gates'[k + 1])]_vars

\* C6: with params.position = p, the new gate is placed immediately after the
\* last gate of the list that shares a target qubit with it and has an
\* effective position strictly smaller than p, whatever precedes that gate.
C6_AfterLastEarlierOverlap ==
    [][(/\ lastOp'.op = "addGate" /\ lastResult'.ok
        /\ Property(callerParams', "position") # {})
          => LET p == ValueOf(Property(callerParams', "position"))
                 own(i) == Property(gates[i + 1].params, "position")
                 effective(i) == IF own(i) # {} THEN ValueOf(own(i)) ELSE i
                 earlier == {i \in 0..(Len(gates) - 1) :
                               /\ Overlaps(gates[i + 1].targetQubits, callerTargets')
                               /\ effective(i) < p}
             IN  earlier # {}
                    => LET k == Max(earlier) + 1
                       IN  /\ gates'[k + 1].name = lastOp'.name
                           /\ gates'[k + 1].targetQubits = callerTargets'
                           /\ gates' = Splice(gates, k, gates'[k + 1])]_vars

\* C28: a successful addGate inserts exactly one gate: the list is one
\* longer, the gates queued before keep their relative order around the new
\* one, and without params.position the new gate is the last.
C28_InsertsOneGate ==
    [][(lastOp'.op = "addGate" /\ lastResult'.ok)
          => /\ Len(gates') = Len(gates) + 1
             /\ \E k \in 1..Len(gates') :
                   /\ gates'[k].name = lastOp'.name
                   /\ gates'[k].targetQubits = callerTargets'
                   /\ gates'[k].params = callerParams'
                   /\ \A i \in 1..Len(gates) :
                         gates[i] = gates'[IF i < k THEN i ELSE i + 1]
                   /\ Property(callerParams', "position") = {}
                         => k = Len(gates')]_vars

\* X with position 1 went between H and the X of position 0 queued before
C28_Witness ==
    /\ lastOp.op = "addGate" /\ lastResult.ok
    /\ Len(gates) = 3
    /\ callerParams = << <<"position", 1>> >>
    /\ gates[1].name = "H"
    /\ gates[2].params = callerParams
    /\ gates[3].params = << <<"position", 0>> >>

\* C29: the matrix addGate queues for Rx, Ry or Rz depends only on the
\* angle: for params carrying an angle it is the rotation by that angle,
\* whether or not params.position is supplied and whatever the order of the
\* keys; the position is never used as the angle.
C29_MatrixFromAngleOnly ==
    [][(/\ lastOp'.op = "addGate" /\ lastResult'.ok
        /\ toUpperCase(lastOp'.name) \in {"RX", "RY", "RZ"}
        /\ Property(callerParams', "angle") # {})
          => \A k \in DOMAIN gates' :
                (/\ gates'[k].name = lastOp'.name
                 /\ gates'[k].params = callerParams')
                => LET angle == ValueOf(Property(callerParams', "angle"))
                   IN  gates'[k].matrix =
                          (CASE toUpperCase(lastOp'.name) = "RX" -> RotationX(angle)
                             [] toUpperCase(lastOp'.name) = "RY" -> RotationY(angle)
                             [] toUpperCase(lastOp'.name) = "RZ" -> RotationZ(angle))]_vars

\* C7: once addGate has returned, a write by the caller into the array or the
\* params object it passed changes no queued gate (matrix, targets, params)
\* and so not the outcome of a later run.
C7_QueuedGateFixed ==
    [][lastOp'.op \in {"mutateTargets", "mutateParams"}
          => /\ gates' = gates
             /\ run(numQubits', gates', measurements', state',
                    executionHistory', 1)
                = run(numQubits, gates, measurements, state,
                      executionHistory, 1)]_vars

\* The caller changed the angle it had passed; the queued RX gate still holds
\* the angle and the matrix of the call, and a run has used them
C7_Witness ==
    /\ lastOp.op = "run" /\ lastResult.ok
    /\ callerParams = << <<"angle", MaxAngle + 1>> >>
    /\ \E k \in DOMAIN gates :
          /\ gates[k].name = "RX"
          /\ gates[k].params = << <<"angle", MaxAngle>> >>
          /\ gates[k].matrix = RotationX(MaxAngle)
    /\ lastResult.value.finalState # lastResult.value.initialState

\* C8: a name that getGate accepts (canonical or alias, any letter case, CRZ,
\* U and Rk included) has metadata, so addGate never refuses it as unknown.
C8_AcceptedNamesHaveMetadata ==
    [][(/\ lastOp'.op = "addGate"
        /\ getGate(lastOp'.name, ObjectValues(callerParams')).ok)
          => /\ getGateInfo(lastOp'.name).ok
             /\ lastResult'.error # "UnknownGate"]_vars

\* C9: a parameterized gate asked for without its argument fails with
\* MissingParameter: through getGate with no argument, and through addGate
\* with a params object that holds nothing but a position (or nothing), the
\* targets being acceptable.
C9_MissingParameter ==
    [][(/\ lastOp'.op = "addGate"
        /\ toUpperCase(lastOp'.name) \in {"RX", "RY", "RZ", "CRZ", "RK", "U"}
        /\ \A k \in DOMAIN callerParams' : callerParams'[k][1] = "position"
        /\ lastResult'.error \notin {"GateArityMismatch", "QubitIndexOutOfRange"})
          => /\ getGate(lastOp'.name, <<>>) = Fail("MissingParameter")
             /\ lastResult'.error = "MissingParameter"]_vars

\* C10: every constructor of the catalog returns a square matrix of 2^arity
\* rows and columns: arity 1 for H, X, Y, Z, S, T, Rx, Ry, Rz, U, Rk, arity 2
\* for CNOT, CZ, CRZ, SWAP, arity 3 for Toffoli and Fredkin.
C10_SquareOfArity ==
    (lastOp.op = "getGate" /\ lastResult.ok)
       => LET n == toUpperCase(lastOp.name)
              arity == IF n \in {"CNOT", "CONTROLLED_NOT", "CZ", "CONTROLLED_Z",
                                 "CRZ", "CONTROLLED_RZ", "SWAP"} THEN 2
                       ELSE IF n \in {"TOFFOLI", "CCNOT", "FREDKIN", "CSWAP"} THEN 3
                       ELSE 1
              matrix == lastResult.value
          IN  /\ matrix.rows = Pow2(arity)
              /\ matrix.cols = Pow2(arity)
              /\ Len(matrix.data) = matrix.rows
              /\ \A i \in DOMAIN matrix.data : Len(matrix.data[i]) = matrix.cols

-----------------------------------------------------------------------------
(* Properties of a shot: order, measurement, history *)

\* C11: within a shot every queued gate is applied in list order, each on
\* the register the previous one left, before any measurement is resolved;
\* the shot returns a result that holds one gate record per queued gate and
\* one measurement record per registered measurement, in those orders.
C11_ShotOrder ==
    [][lastOp'.op = "run"
          => /\ lastResult'.ok
             /\ \A s \in DOMAIN lastResult'.results :
                   LET shot == lastResult'.results[s]
                       ops == shot.gateOperations
                   IN  /\ Len(ops) = Len(gates)
                       /\ \A k \in DOMAIN ops :
                             /\ ops[k].gate = gates[k].name
                             /\ ops[k].beforeState =
                                   IF k = 1 THEN shot.initialState
                                   ELSE ops[k - 1].afterState
                       /\ Len(ops) > 0 => shot.finalState = ops[Len(ops)].afterState
                       /\ Len(shot.measurements) = Len(measurements)
                       /\ \A k \in DOMAIN shot.measurements :
                             shot.measurements[k].qubit = measurements[k].qubit]_vars

\* C30: the snapshots of a shot result are independent copies that form an
\* unbroken chain: initialState is the register the shot started from, the
\* first gate record's beforeState equals it, every afterState is the gate
\* applied to its beforeState and equals the next record's beforeState, and
\* with no measurements the last afterState equals finalState, the register
\* the shot left; and no later collapse, measurement or change of the
\* circuit changes a snapshot recorded in the history.
C30_SnapshotChain ==
    [][LET same(a, b) == a.amplitudes = b.amplitudes /\ a.scale = b.scale
           sameRecords(a, b) ==
               /\ same(a.initialState, b.initialState)
               /\ same(a.finalState, b.finalState)
               /\ Len(a.gateOperations) = Len(b.gateOperations)
               /\ \A k \in DOMAIN a.gateOperations :
                     /\ same(a.gateOperations[k].beforeState,
                             b.gateOperations[k].beforeState)
                     /\ same(a.gateOperations[k].afterState,
                             b.gateOperations[k].afterState)
       IN  /\ (lastOp'.op = "run" /\ lastResult'.ok)
              => \A s \in DOMAIN lastResult'.results :
                    LET rs == lastResult'.results
                        shot == rs[s]
                        ops == shot.gateOperations
                    IN  /\ same(shot.initialState,
                                IF s = 1 THEN state ELSE rs[s - 1].finalState)
                        /\ Len(ops) > 0
                              => same(ops[1].beforeState, shot.initialState)
                        /\ \A k \in DOMAIN ops :
                              /\ applyOne(ops[k].beforeState, gates[k]).ok
                              /\ same(applyOne(ops[k].beforeState, gates[k]).value,
                                      ops[k].afterState)
                              /\ k < Len(ops)
                                    => same(ops[k].afterState, ops[k + 1].beforeState)
                        /\ (Len(ops) > 0 /\ shot.measurements = <<>>)
                              => same(ops[Len(ops)].afterState, shot.finalState)
                        /\ s = Len(rs) => same(shot.finalState, state')
           /\ lastOp'.op \in {"collapseQubit", "measureQubit", "addGate",
                              "addClassicalGate", "addMeasurement", "clear",
                              "fromAmplitudes"}
              => /\ Len(executionHistory') = Len(executionHistory)
                 /\ \A k \in DOMAIN executionHistory :
                       sameRecords(executionHistory'[k], executionHistory[k])]_vars

\* a one-gate shot was recorded and a later collapse changed the register:
\* the recorded final state is not the register's
C30_Witness ==
    /\ lastOp.op = "collapseQubit"
    /\ Len(executionHistory) = 1
    /\ Len(executionHistory[1].gateOperations) = 1
    /\ executionHistory[1].gateOperations[1].beforeState = executionHistory[1].initialState
    /\ executionHistory[1].initialState.amplitudes # executionHistory[1].finalState.amplitudes
    /\ executionHistory[1].finalState.amplitudes # state.amplitudes

\* C12: run(shots = N) with N > 1 completes whatever measurements are
\* registered, and for every measured qubit q the aggregated statistics
\* satisfy stats[q][0] + stats[q][1] = 1 (counts over shots adding up to N).
C12_StatsSumToOne ==
    [][(lastOp'.op = "run" /\ lastOp'.args[1] > 1)
          => /\ lastResult'.ok
             /\ \A k \in DOMAIN measurements :
                   LET q == measurements[k].qubit
                       stats == lastResult'.value.measurementStats
                   IN  /\ q \in DOMAIN stats
                       /\ stats[q][0] + stats[q][1] = lastOp'.args[1]]_vars

\* C26: run(shots = N) with N > 1 returns an aggregated result with
\* shots = N whose bitStringProbabilities gives every bit string the number
\* of shots whose final state has it as its highest-probability basis index
\* (the first such index on a tie), over N: each shot counts for exactly one
\* bit string, so the values sum to 1.  run(1) returns the raw result of its
\* single shot, without aggregate fields.
C26_Aggregation ==
    [][(lastOp'.op = "run" /\ lastResult'.ok)
          => LET N == lastOp'.args[1]
                 results == lastResult'.results
                 value == lastResult'.value
                 table == value.bitStringProbabilities
                 prob(k, i) == magnitude2(results[k].finalState.amplitudes[i + 1])
                 top(k, i) == \A j \in 0..(Pow2(numQubits) - 1) :
                                 ~RLess(prob(k, i), prob(k, j))
                 first(k) == CHOOSE i \in 0..(Pow2(numQubits) - 1) :
                                /\ top(k, i)
                                /\ \A j \in 0..(i - 1) : ~top(k, j)
                 bits(i) == [q \in 1..numQubits |->
                               (i \div Pow2(numQubits - q)) % 2]
                 shotsFor(b) == {k \in 1..N : bits(first(k)) = b}
             IN  /\ Len(results) = N
                 /\ N = 1 => /\ ~value.aggregated
                             /\ value.shots = {}
                             /\ value.initialState = results[1].initialState
                             /\ value.finalState = results[1].finalState
                             /\ value.gateOperations = results[1].gateOperations
                             /\ value.measurements = results[1].measurements
                 /\ N > 1 => /\ value.aggregated
                             /\ value.shots = {N}
                             /\ DOMAIN table = {bits(first(k)) : k \in 1..N}
                             /\ \A b \in DOMAIN table :
                                   table[b] = Cardinality(shotsFor(b))]_vars

\* two shots of a one-qubit X program ended in |1> and in |0>: each bit
\* string has one of the two shots
C26_Witness ==
    /\ lastOp = Op("run", "", <<2>>)
    /\ lastResult.ok
    /\ numQubits = 1
    /\ DOMAIN lastResult.value.bitStringProbabilities = {<<0>>, <<1>>}
    /\ lastResult.value.bitStringProbabilities[<<1>>] = 1

\* C13: measureQubit(q) returns the probabilities p0 and p1 of bit 0 and bit
\* 1 at qubit q (sums of |amplitude_i|^2), an outcome of nonzero probability,
\* and leaves the register collapsed onto that outcome; p0 + p1 = 1 on a
\* unit-norm register.
C13_MeasureQubit ==
    [][lastOp'.op = "measureQubit"
          => LET q == lastOp'.args[1]
                 mass(b) == SumR([i \in DOMAIN state.amplitudes |->
                                     IF Bit(numQubits, i - 1, q) = b
                                     THEN magnitude2(state.amplitudes[i])
                                     ELSE <<0, 0>>],
                                 DOMAIN state.amplitudes)
             IN  /\ lastResult'.ok
                 /\ lastResult'.value.qubit = q
                 /\ lastResult'.value.result \in {0, 1}
                 /\ mass(lastResult'.value.result) # <<0, 0>>
                 /\ UnitNorm(state) => RAdd(mass(0), mass(1)) = state.scale
                 /\ state' = collapseQubit(numQubits, state, q,
                                           lastResult'.value.result)]_vars

\* C16: after run(shots = N) the execution history holds N records in shot
\* order, record k being shot k's result with its initial and final state and
\* its per-gate snapshots.
C16_HistoryPerShot ==
    [][(lastOp'.op = "run" /\ lastResult'.ok)
          => /\ Len(executionHistory') = lastOp'.args[1]
             /\ \A k \in DOMAIN executionHistory' :
                   executionHistory'[k] = lastResult'.results[k]]_vars

C23_CollapseWithoutMass ==
    [][(/\ lastOp'.op = "collapseQubit"
        /\ \A i \in DOMAIN state.amplitudes :
              Bit(numQubits, i - 1, lastOp'.args[1]) = lastOp'.args[2]
                 => state.amplitudes[i] = Zero)
          => (lastResult'.ok /\ state' = state)]_vars

\* collapse onto bit 1 of the last qubit left a register in place that has
\* all of its mass on bit 0 of that qubit, spread over two basis states
C23_Witness ==
    /\ lastOp.op = "collapseQubit" /\ lastOp.args = <<numQubits - 1, 1>>
    /\ \A i \in DOMAIN state.amplitudes :
          Bit(numQubits, i - 1, numQubits - 1) = 1 => state.amplitudes[i] = Zero
    /\ Cardinality({i \in DOMAIN state.amplitudes :
                       state.amplitudes[i] # Zero}) = 2

-----------------------------------------------------------------------------
(* Properties of gates on basis states *)

\* C15: with qubit 0 the most significant bit, CNOT on targets [c, t], c # t,
\* takes the basis state |i> to the basis state that is i with bit t flipped
\* exactly when bit c of i is 1 (amplitude 1 there, 0 elsewhere).
C15_CnotOnBasisState ==
    [][(lastOp'.op = "applyGate" /\ lastOp'.name = "CNOT")
          => LET i == lastOp'.args[1]
                 c == lastOp'.args[2]
                 t == lastOp'.args[3]
                 place(q) == Pow2(numQubits - 1 - q)
                 bit(q) == (i \div place(q)) % 2
                 expected == IF bit(c) = 0 THEN i
                             ELSE IF bit(t) = 0 THEN i + place(t)
                             ELSE i - place(t)
             IN  /\ lastResult'.ok
                 /\ state'.scale = <<1, 0>>
                 /\ \A k \in DOMAIN state'.amplitudes :
                       state'.amplitudes[k] = IF k = expected + 1 THEN One
                                              ELSE Zero]_vars

\* |10> becomes |11> under CNOT with targets [0, 1]
C15_Witness ==
    /\ lastOp = Op("applyGate", "CNOT", <<2, 0, 1>>)
    /\ numQubits = 2
    /\ state.amplitudes = <<Zero, Zero, Zero, One>>

\* C20: the classical NOT with input qubit a and output qubit b takes the
\* basis state |i> to the basis state that is i with bit b set to the
\* negation of bit a of i; no amplitude is lost or overwritten.
C20_ClassicalNot ==
    [][(lastOp'.op = "applyClassicalGate" /\ lastOp'.name = "NOT")
          => LET i == lastOp'.args[1]
                 a == lastOp'.args[2]
                 b == lastOp'.args[3]
                 place(q) == Pow2(numQubits - 1 - q)
                 bit(q) == (i \div place(q)) % 2
                 expected == i - bit(b) * place(b) + (1 - bit(a)) * place(b)
             IN  \A k \in DOMAIN state'.amplitudes :
                    state'.amplitudes[k] = IF k = expected + 1 THEN One
                                           ELSE Zero]_vars

-----------------------------------------------------------------------------
(* Properties of the builder and of the numeric core *)

\* C17: no circuit of more than 8 qubits exists behind the builder: the
\* ceiling maxQubits is enforced for every qubit count createCircuit is
\* asked for.
C17_QubitCeiling == numQubits <= maxQubits

\* C18: divide fails with DivisionByZero when the divisor's squared
\* magnitude is zero, and returns a (finite) value only for a nonzero divisor.
C18_DivisionByZero ==
    lastOp.op = "divide"
       => LET y == lastOp.args[2]
          IN  IF y[1] * y[1] + y[3] * y[3] = 0
              THEN ~lastResult.ok /\ lastResult.error = "DivisionByZero"
              ELSE /\ lastResult.ok
                   /\ lastResult.value.real.kind = "finite"
                   /\ lastResult.value.imag.kind = "finite"

\* C19: fromAmplitudes fails with InvalidDimension when the number of
\* amplitudes is not a power of two and with ZeroState when every amplitude
\* is zero, the register staying as it was; otherwise the state it returns is
\* the normalized vector, shares no amplitude object with the caller's array
\* and leaves the caller's values as they were, so a later write by the
\* caller into its array does not reach the register.
C19_FromAmplitudes ==
    [][/\ lastOp'.op = "fromAmplitudes"
          => LET a == lastOp'.args[1]
                 powerOfTwo == Len(a) \in {1, 2, 4, 8, 16}
                 allZero == \A k \in DOMAIN a : a[k] = Zero
             IN  /\ ~powerOfTwo
                       => lastResult'.error = "InvalidDimension" /\ state' = state
                 /\ (powerOfTwo /\ allZero)
                       => lastResult'.error = "ZeroState" /\ state' = state
                 /\ (powerOfTwo /\ ~allZero)
                       => /\ lastResult'.ok
                          /\ ~lastResult'.value.aliased
                          /\ lastResult'.value.amplitudes = a
                          /\ UnitNorm(state')
                          /\ state'.dimension = Len(a)
                          /\ \A i, j \in DOMAIN a :
                                multiply(state'.amplitudes[i], a[j])
                                   = multiply(state'.amplitudes[j], a[i])
       /\ lastOp'.op = "mutateAmplitude" => state' = state]_vars

\* The register installed from (1, 1, 1, 2i) is still (1, 1, 1, 2i)/sqrt7
\* after the caller has overwritten an entry of its array
C19_Witness ==
    /\ lastOp.op = "mutateAmplitude" /\ lastResult.ok
    /\ numQubits = 2
    /\ lastResult.value.amplitudes # <<One, One, One, Complex(0, 2)>>
    /\ state.amplitudes = <<One, One, One, Complex(0, 2)>>
    /\ state.scale = <<7, 0>>

-----------------------------------------------------------------------------
(* Properties of the classical gates and of applyGate on basis states *)

\* C21: the classical AND (OR) with input qubits a, b and output qubit c
\* takes the basis state |i> to the single basis state that is i with bit c
\* set to bit a AND (OR) bit b of i: amplitude 1 there and 0 elsewhere, for
\* every a, b, c, the output being one of the inputs included.
C21_ClassicalAndOr ==
    [][(lastOp'.op = "applyClassicalGate" /\ lastOp'.name \in {"AND", "OR"})
          => \A i \in 0..(Pow2(numQubits) - 1) :
                (/\ state.scale = <<1, 0>>
                 /\ \A k \in DOMAIN state.amplitudes :
                       state.amplitudes[k] = IF k = i + 1 THEN One ELSE Zero)
                => LET a == lastOp'.args[1]
                       b == lastOp'.args[2]
                       c == lastOp'.args[3]
                       place(q) == Pow2(numQubits - 1 - q)
                       bit(q) == (i \div place(q)) % 2
                       result == IF lastOp'.name = "AND" THEN bit(a) * bit(b)
                                 ELSE bit(a) + bit(b) - bit(a) * bit(b)
                       expected == i - bit(c) * place(c) + result * place(c)
                   IN  /\ state'.scale = <<1, 0>>
                       /\ \A k \in DOMAIN state'.amplitudes :
                             state'.amplitudes[k] =
                                IF k = expected + 1 THEN One ELSE Zero]_vars

\* OR of qubits 0 and 1 written onto qubit 1, one of its inputs, gives |11>
\* (from |10>, or from |11> itself)
C21_Witness ==
    /\ lastOp = Op("applyClassicalGate", "OR", <<0, 1, 1>>)
    /\ numQubits = 2
    /\ state.amplitudes = <<Zero, Zero, Zero, One>>

\* C22: when no basis index carries an amplitude of magnitude above 0.9, the
\* classical AND and OR leave the whole amplitude vector as it was.
C22_NoDominantNoOp ==
    [][(/\ lastOp'.op = "applyClassicalGate"
        /\ lastOp'.name \in {"AND", "OR"}
        /\ \A k \in DOMAIN state.amplitudes :
              ~RLess(RScale(81, state.scale),
                     RScale(100, magnitude2(state.amplitudes[k]))))
          => state' = state]_vars

\* OR was applied to the equal superposition H left on two basis states
C22_Witness ==
    /\ lastOp.op = "applyClassicalGate"
    /\ lastOp.name = "OR"
    /\ state.scale = <<2, 0>>
    /\ Cardinality({k \in DOMAIN state.amplitudes :
                       state.amplitudes[k] # Zero}) = 2

\* C24: applyGate with targets T on the basis state |j> gives a nonzero
\* amplitude only to indices that agree with j on every qubit outside T.
C24_NonTargetsUntouched ==
    [][(lastOp'.op = "applyGate")
          => LET j == lastOp'.args[1]
                 targetQubits == Tail(lastOp'.args)
                 place(q) == Pow2(numQubits - 1 - q)
             IN  \A k \in DOMAIN state'.amplitudes :
                    state'.amplitudes[k] # Zero
                       => \A q \in Qubits :
                             \/ \E t \in DOMAIN targetQubits : targetQubits[t] = q
                             \/ ((k - 1) \div place(q)) % 2 = (j \div place(q)) % 2]_vars

\* H on qubit 1 of |10> spreads over |10> and |11> only
C24_Witness ==
    /\ lastOp = Op("applyGate", "H", <<2, 1>>)
    /\ numQubits = 2
    /\ lastResult.ok
    /\ state.amplitudes[3] # Zero
    /\ state.amplitudes[4] # Zero

\* C25: applyGate fails with GateArityMismatch whenever the number of target
\* qubits differs from log2 of the gate matrix size, and a gate application
\* that fails leaves the register's amplitudes unchanged.
C25_ArityMismatchAtomic ==
    [][(lastOp'.op = "applyGate")
          => LET rows == lastResult'.value[1]
                 targetQubits == Tail(lastOp'.args)
             IN  /\ Pow2(Len(targetQubits)) # rows
                    => (~lastResult'.ok
                        /\ lastResult'.error = "GateArityMismatch")
                 /\ ~lastResult'.ok => state' = state]_vars

-----------------------------------------------------------------------------
(* Properties of Matrix *)

\* C27: determinant() of a square matrix of size 3 or more returns the
\* Laplace expansion along row 0 (-1 for CNOT), and fails with NotSquare on
\* a matrix that is not square.
C27_Determinant ==
    lastOp.op = "determinant"
       => LET m == lastResult.value.matrix
          IN  /\ m.rows # m.cols
                 => (~lastResult.ok /\ lastResult.error = "NotSquare")
              /\ (m.rows = m.cols /\ m.rows >= 3)
                 => /\ lastResult.ok
                    /\ lastResult.value.det =
                          [num |-> LaplaceExpansion(m.data), den |-> m.den ^ m.rows]
                    /\ toUpperCase(lastOp.name) = "CNOT"
                          => lastResult.value.det = [num |-> Complex(-1, 0), den |-> 1]

====
